---------------------------- MODULE Spec2Model ----------------------------
(***************************************************************************)
(* Reader-writer TCP chat server (src/backend/server.c).                   *)
(*                                                                         *)
(* One handler thread (handle_client) per accepted connection.  The        *)
(* threads share the semaphores mutex and wrt and the counter              *)
(* reader_count.  A handler step starts at a blocking call (recv,          *)
(* sem_wait, the store) and runs the straight-line code after it up to the *)
(* next blocking call.  Frames are sequences of one-character strings so   *)
(* that strncmp, strstr, rtrim and the pointer arithmetic of the role      *)
(* negotiation are computed as the C code computes them.  The accept loop  *)
(* of main and the SIGINT handler are modelled by the listener actions     *)
(* (ServerSpec); Spec starts with every connection already accepted.       *)
(***************************************************************************)
EXTENDS Integers, Sequences, FiniteSets, TLC

(* ---------------------------- bounds ---------------------------------- *)
NumConns == 3        \* connections accepted by the listener
MaxStore == 1        \* messages the store holds at most

Conns == 1..NumConns

(* ---------------------------- text ------------------------------------ *)
NL == "\n"
CR == "\r"
SP == " "

writerS == <<"w","r","i","t","e","r">>
readerS == <<"r","e","a","d","e","r">>
startS  == <<"s","t","a","r","t">>
stopS   == <<"s","t","o","p">>
exitS   == <<"e","x","i","t">>
hiS     == <<"h","i">>
spectatorS == <<"s","p","e","c","t","a","t","o","r">>

\* First frames a client may send (the client of src/backend/client.c sends
\* the bare role; other clients send role and first command in one frame).
InitFrames ==
  { writerS, readerS,
    writerS \o <<NL>>,
    writerS \o <<NL>> \o startS,
    writerS \o <<SP>> \o startS \o <<CR, NL>>,
    writerS \o startS,
    writerS \o <<NL>> \o stopS,
    writerS \o <<SP>> \o hiS,
    readerS \o <<NL>>,
    <<"x">> \o readerS,
    hiS \o <<SP>> \o writerS,
    spectatorS,
    <<NL>> }

\* Frames a writer client may send in the command loop.
LoopFrames ==
  { startS, stopS, exitS, hiS,
    startS \o <<NL>>,
    stopS \o <<CR, NL>>,
    <<NL>> }

(* rtrim, server.c:41-44 *)
RECURSIVE rtrim(_)
rtrim(s) ==
  IF Len(s) > 0 /\ s[Len(s)] \in {NL, CR}
    THEN rtrim(SubSeq(s, 1, Len(s) - 1))
    ELSE s

(* strncmp(s, t, Len(t)) == 0 *)
HasPrefix(s, t) == Len(s) >= Len(t) /\ SubSeq(s, 1, Len(t)) = t

(* strstr(s, t) != NULL *)
StrStr(s, t) ==
  \E i \in 1..Len(s) : i + Len(t) - 1 <= Len(s) /\ SubSeq(s, i, i + Len(t) - 1) = t

(* role negotiation, server.c:143-151 *)
Mode(initial) ==
  IF HasPrefix(initial, writerS) THEN "writer"
  ELSE IF HasPrefix(initial, readerS) THEN "reader"
  ELSE IF StrStr(initial, writerS) THEN "writer"
  ELSE IF StrStr(initial, readerS) THEN "reader"
  ELSE ""

(* the while loop of server.c:162 that skips blanks after the role token *)
RECURSIVE SkipBlank(_)
SkipBlank(s) ==
  IF Len(s) > 0 /\ s[1] \in {SP, NL, CR} THEN SkipBlank(Tail(s)) ELSE s

(* p_after, server.c:161-162; <<>> stands for NULL or the empty string *)
PAfter(initial) ==
  IF Len(initial) > 6
    THEN rtrim(SkipBlank(SubSeq(initial, 7, Len(initial))))
    ELSE <<>>

(* ---------------------------- replies --------------------------------- *)
\* send(sock, "OK: writer session started\n", 26, 0) sends 26 bytes, which
\* leaves the newline out.
OK_STARTED   == "OK: writer session started"
OK_STOPPED   == "OK: writer session stopped"
OK_STORED    == "OK: message stored\n"
ERR_INIT_MSG == "ERROR: start writing first\n"
ERR_NO_LOCK  == "ERROR: You must start writing first\n"
ERR_NO_SESS  == "ERROR: no active writer session\n"
ERR_INSERT   == "ERROR: insert failed\n"
NoReply      == "none"

\* the lines of the server's log that end a writer's handler, server.c:222
\* and 225 (the second follows the first when both are printed)
AUTO_RELEASED == "[SERVER] Writer lock auto-released"
DISCONNECTED  == "[SERVER] Writer disconnected"

\* the line of the log for a first frame without a role, server.c:251
UNKNOWN_ROLE  == "[SERVER] Unknown role received"

\* what a handler writes to the log and not to its socket
LogLines == {AUTO_RELEASED, DISCONNECTED, UNKNOWN_ROLE}

OKReplies    == {OK_STARTED, OK_STOPPED, OK_STORED}
ErrorReplies == {ERR_INIT_MSG, ERR_NO_LOCK, ERR_NO_SESS, ERR_INSERT}

(* insert_message_to_db_pool, server.c:47-83: the outcomes of one call as  *)
(* pairs <<reply, store after the call>>; the store accepts or refuses.    *)
InsertOutcomes(st, message) ==
  { <<OK_STORED, Append(st, message)>>, <<ERR_INSERT, st>> }

(* What the first recv and the parsing of server.c:138-162 make of the     *)
(* first frames: <<mode, p_after>>.                                        *)
InitialInputs == { <<Mode(rtrim(f)), PAfter(rtrim(f))>> : f \in InitFrames }

\* the inputs of the first recv whose role is mode m
InitialPayloads(m) == { in[2] : in \in { i \in InitialInputs : i[1] = m } }

(* What recv and rtrim of server.c:186-188 make of the loop frames.        *)
LoopInputs == { rtrim(f) : f \in LoopFrames }

(* ---------------------------- state ----------------------------------- *)
VARIABLES
  pc,            \* position of each handler thread
  mode,          \* char mode[16]
  has_lock,      \* int has_lock of the writer path
  out,           \* what the latest step wrote: <<connection, frame, command, text>>
  wrt,           \* sem_t wrt
  mutex,         \* sem_t mutex
  reader_count,  \* static int reader_count
  store,         \* the message collection, in insertion order
  running,       \* static volatile sig_atomic_t running
  lpc            \* position of main in its accept loop

vars == <<pc, mode, has_lock, out, wrt, mutex, reader_count, store, running, lpc>>

\* the state of main and of the signal handler
listener == <<running, lpc>>

shared == <<wrt, mutex, reader_count, store>>

\* a step that writes nothing
Quiet == <<0, "", <<>>, NoReply>>

\* text written by handler c for command b of its first frame ("first"), of
\* a frame of its loop ("loop") or at the end of its loop ("end")
Reply(c, frame, b, text) == <<c, frame, b, text>>

\* NumConns connections have been accepted, their handlers are at their
\* first recv and main is back in accept
Init ==
  /\ pc = [c \in Conns |-> "recv_init"]
  /\ mode = [c \in Conns |-> ""]
  /\ has_lock = [c \in Conns |-> 0]
  /\ out = Quiet
  /\ wrt = 1
  /\ mutex = 1
  /\ reader_count = 0
  /\ store = <<>>
  /\ running = 1
  /\ lpc = "accept"

(* strcmp(b, "start") == 0 and so on, server.c:165-173 and 191-207 *)
IsStart(b) == b = startS
IsStop(b)  == b = stopS
IsExit(b)  == b = exitS
IsMessage(b) == Len(b) > 0 /\ ~IsStart(b) /\ ~IsStop(b) /\ ~IsExit(b)

(* ---------------------------- role negotiation ------------------------ *)
\* an unknown role answered with an error reply on the socket
RecvInitial_ReplyUnknown(c) ==
  /\ pc[c] = "recv_init"
  /\ \E in \in InitialInputs :
       /\ in[1] = "writer" => Len(in[2]) = 0
       /\ mode' = [mode EXCEPT ![c] = in[1]]
       /\ pc' = [pc EXCEPT ![c] = IF in[1] = "writer" THEN "w_recv"
                                  ELSE IF in[1] = "reader" THEN "r_enter"
                                  ELSE "done"]
       /\ out' = IF in[1] \in {"writer", "reader"} THEN Quiet
                 ELSE Reply(c, "first", <<>>, "ERROR: unknown role\n")
  /\ UNCHANGED <<has_lock, shared>>
  /\ UNCHANGED listener

(* server.c:138-164, 229-230 and 250-254: the first recv gives a reader, a *)
(* writer without payload, or an unknown role, which is logged and closed  *)
RecvInitial(c) ==
  /\ pc[c] = "recv_init"
  /\ \E in \in InitialInputs :
       /\ in[1] = "writer" => Len(in[2]) = 0
       /\ mode' = [mode EXCEPT ![c] = in[1]]
       /\ pc' = [pc EXCEPT ![c] = IF in[1] = "writer" THEN "w_recv"
                                  ELSE IF in[1] = "reader" THEN "r_enter"
                                  ELSE "done"]
       /\ out' = IF in[1] \in {"writer", "reader"} THEN Quiet
                 ELSE Reply(c, "first", <<>>, UNKNOWN_ROLE)
  /\ UNCHANGED <<has_lock, shared>>
  /\ UNCHANGED listener

(* server.c:139: the first recv returns 0 or -1 *)
RecvInitialFail(c) ==
  /\ pc[c] = "recv_init"
  /\ pc' = [pc EXCEPT ![c] = "done"]
  /\ out' = Quiet
  /\ UNCHANGED <<mode, has_lock, shared>>
  /\ UNCHANGED listener

(* ---------------------------- writer path ----------------------------- *)
(* server.c:138-165: the first frame of a writer carries "start" *)
W_InitRecvStart(c) ==
  /\ pc[c] = "recv_init"
  /\ \E p \in InitialPayloads("writer") : Len(p) > 0 /\ IsStart(p)
  /\ mode' = [mode EXCEPT ![c] = "writer"]
  /\ pc' = [pc EXCEPT ![c] = "w_init_start"]
  /\ out' = Quiet
  /\ UNCHANGED <<has_lock, shared>>
  /\ UNCHANGED listener

\* "start" in the first frame without sem_wait(&wrt)
W_InitStart_NoWait(c) ==
  /\ pc[c] = "w_init_start"
  /\ has_lock' = [has_lock EXCEPT ![c] = 1]
  /\ out' = Reply(c, "first", startS, OK_STARTED)
  /\ pc' = [pc EXCEPT ![c] = "w_recv"]
  /\ UNCHANGED <<mode, shared>>
  /\ UNCHANGED listener

(* server.c:166-169: sem_wait(&wrt) blocks while wrt is 0 *)
W_InitStart(c) ==
  /\ pc[c] = "w_init_start"
  /\ wrt > 0
  /\ wrt' = wrt - 1
  /\ has_lock' = [has_lock EXCEPT ![c] = 1]
  /\ out' = Reply(c, "first", startS, OK_STARTED)
  /\ pc' = [pc EXCEPT ![c] = "w_recv"]
  /\ UNCHANGED <<mode, mutex, reader_count, store>>
  /\ UNCHANGED listener

\* "stop" in the first frame posting the gate as the loop's stop does
W_InitStop_Post(c) ==
  /\ pc[c] = "recv_init"
  /\ \E p \in InitialPayloads("writer") :
       /\ Len(p) > 0 /\ ~IsStart(p) /\ IsStop(p)
       /\ out' = Reply(c, "first", p, OK_STOPPED)
  /\ wrt' = wrt + 1
  /\ mode' = [mode EXCEPT ![c] = "writer"]
  /\ pc' = [pc EXCEPT ![c] = "w_recv"]
  /\ UNCHANGED <<has_lock, mutex, reader_count, store>>
  /\ UNCHANGED listener

(* server.c:138-164 and 170-172: the first frame of a writer carries "stop" *)
W_InitStop(c) ==
  /\ pc[c] = "recv_init"
  /\ \E p \in InitialPayloads("writer") :
       /\ Len(p) > 0 /\ ~IsStart(p) /\ IsStop(p)
       /\ out' = Reply(c, "first", p, OK_STOPPED)
  /\ mode' = [mode EXCEPT ![c] = "writer"]
  /\ pc' = [pc EXCEPT ![c] = "w_recv"]
  /\ UNCHANGED <<has_lock, shared>>
  /\ UNCHANGED listener

(* server.c:138-164 and 173-182: the first frame of a writer carries any   *)
(* other payload                                                           *)
W_InitMessage(c) ==
  /\ pc[c] = "recv_init"
  /\ \E p \in InitialPayloads("writer") :
       /\ Len(p) > 0 /\ ~IsStart(p) /\ ~IsStop(p)
       /\ IF has_lock[c] = 0
            THEN /\ out' = Reply(c, "first", p, ERR_INIT_MSG)
                 /\ store' = store
            ELSE \E o \in InsertOutcomes(store, p) :
                   /\ out' = Reply(c, "first", p, o[1])
                   /\ store' = o[2]
  /\ mode' = [mode EXCEPT ![c] = "writer"]
  /\ pc' = [pc EXCEPT ![c] = "w_recv"]
  /\ UNCHANGED <<has_lock, wrt, mutex, reader_count>>
  /\ UNCHANGED listener

(* server.c:186-189: recv returns a frame that rtrim leaves empty *)
W_RecvEmpty(c) ==
  /\ pc[c] = "w_recv"
  /\ \E b \in LoopInputs : Len(b) = 0
  /\ out' = Quiet
  /\ UNCHANGED <<pc, mode, has_lock, shared>>
  /\ UNCHANGED listener

\* teardown without the sem_post(&wrt) of server.c:220-223
Teardown_NoRelease(c, b) ==
  /\ has_lock' = [has_lock EXCEPT ![c] = 0]
  /\ out' = Reply(c, "end", b, IF has_lock[c] # 0 THEN AUTO_RELEASED ELSE DISCONNECTED)
  /\ pc' = [pc EXCEPT ![c] = "done"]
  /\ UNCHANGED <<mode, shared>>
  /\ UNCHANGED listener

\* teardown posting the gate whether or not the session holds it
Teardown_AlwaysRelease(c, b) ==
  /\ wrt' = wrt + 1
  /\ has_lock' = [has_lock EXCEPT ![c] = 0]
  /\ out' = Reply(c, "end", b, IF has_lock[c] # 0 THEN AUTO_RELEASED ELSE DISCONNECTED)
  /\ pc' = [pc EXCEPT ![c] = "done"]
  /\ UNCHANGED <<mode, mutex, reader_count, store>>
  /\ UNCHANGED listener

(* server.c:220-227: the code after the loop, left by command b (<<>> when *)
(* recv returned no frame): sem_post(&wrt) and the auto-release line if    *)
(* has_lock, the disconnect line, close; the thread returns and its locals *)
(* are gone                                                                *)
Teardown(c, b) ==
  /\ wrt' = IF has_lock[c] # 0 THEN wrt + 1 ELSE wrt
  /\ has_lock' = [has_lock EXCEPT ![c] = 0]
  /\ out' = Reply(c, "end", b, IF has_lock[c] # 0 THEN AUTO_RELEASED ELSE DISCONNECTED)
  /\ pc' = [pc EXCEPT ![c] = "done"]
  /\ UNCHANGED <<mode, mutex, reader_count, store>>
  /\ UNCHANGED listener

(* server.c:185 and 220-227: recv returns 0 (peer closed) or -1 (error),   *)
(* which ends the loop                                                     *)
W_RecvEnd(c) ==
  /\ pc[c] = "w_recv"
  /\ \E r \in {0, -1} : ~(r > 0)
  /\ Teardown(c, <<>>)

(* server.c:186-191: recv returns "start" *)
W_RecvStart(c) ==
  /\ pc[c] = "w_recv"
  /\ \E b \in LoopInputs : IsStart(b)
  /\ out' = Quiet
  /\ pc' = [pc EXCEPT ![c] = "w_start"]
  /\ UNCHANGED <<mode, has_lock, shared>>
  /\ UNCHANGED listener

\* "start" in the loop replying before the gate is taken
W_Start_ReplyFirst(c) ==
  /\ pc[c] = "w_start"
  /\ IF out # Reply(c, "loop", startS, OK_STARTED)
       THEN /\ out' = Reply(c, "loop", startS, OK_STARTED)
            /\ UNCHANGED <<pc, has_lock, wrt>>
       ELSE /\ wrt > 0
            /\ wrt' = wrt - 1
            /\ has_lock' = [has_lock EXCEPT ![c] = 1]
            /\ pc' = [pc EXCEPT ![c] = "w_recv"]
            /\ out' = Quiet
  /\ UNCHANGED <<mode, mutex, reader_count, store>>
  /\ UNCHANGED listener

(* server.c:192-195: sem_wait(&wrt) blocks while wrt is 0 *)
W_Start(c) ==
  /\ pc[c] = "w_start"
  /\ wrt > 0
  /\ wrt' = wrt - 1
  /\ has_lock' = [has_lock EXCEPT ![c] = 1]
  /\ out' = Reply(c, "loop", startS, OK_STARTED)
  /\ pc' = [pc EXCEPT ![c] = "w_recv"]
  /\ UNCHANGED <<mode, mutex, reader_count, store>>
  /\ UNCHANGED listener

\* "stop" releasing the gate without the has_lock test of server.c:197
W_Stop_NoTest(c) ==
  /\ pc[c] = "w_recv"
  /\ \E b \in LoopInputs :
       /\ ~IsStart(b) /\ IsStop(b)
       /\ out' = Reply(c, "loop", b, OK_STOPPED)
  /\ has_lock' = [has_lock EXCEPT ![c] = 0]
  /\ wrt' = wrt + 1
  /\ UNCHANGED <<pc, mode, mutex, reader_count, store>>
  /\ UNCHANGED listener

\* "stop" without a session closing the connection after the error reply
W_Stop_CloseOnError(c) ==
  /\ pc[c] = "w_recv"
  /\ \E b \in LoopInputs :
       /\ ~IsStart(b) /\ IsStop(b)
       /\ IF has_lock[c] # 0
            THEN /\ has_lock' = [has_lock EXCEPT ![c] = 0]
                 /\ wrt' = wrt + 1
                 /\ out' = Reply(c, "loop", b, OK_STOPPED)
                 /\ pc' = pc
            ELSE /\ out' = Reply(c, "loop", b, ERR_NO_SESS)
                 /\ pc' = [pc EXCEPT ![c] = "done"]
                 /\ UNCHANGED <<has_lock, wrt>>
  /\ UNCHANGED <<mode, mutex, reader_count, store>>
  /\ UNCHANGED listener

(* server.c:186-188 and 196-204: recv returns "stop" *)
W_Stop(c) ==
  /\ pc[c] = "w_recv"
  /\ \E b \in LoopInputs :
       /\ ~IsStart(b) /\ IsStop(b)
       /\ IF has_lock[c] # 0
            THEN /\ has_lock' = [has_lock EXCEPT ![c] = 0]
                 /\ wrt' = wrt + 1
                 /\ out' = Reply(c, "loop", b, OK_STOPPED)
            ELSE /\ out' = Reply(c, "loop", b, ERR_NO_SESS)
                 /\ UNCHANGED <<has_lock, wrt>>
  /\ UNCHANGED <<pc, mode, mutex, reader_count, store>>
  /\ UNCHANGED listener

(* server.c:185-188, 205-206 and 220-227: recv returns "exit", which       *)
(* leaves the loop                                                         *)
W_Exit(c) ==
  /\ pc[c] = "w_recv"
  /\ \E b \in LoopInputs :
       /\ ~IsStart(b) /\ ~IsStop(b) /\ IsExit(b)
       /\ Teardown(c, b)

\* a message stored without the has_lock test of server.c:208
W_Message_NoTest(c) ==
  /\ pc[c] = "w_recv"
  /\ Len(store) < MaxStore
  /\ \E b \in LoopInputs :
       /\ Len(b) > 0 /\ ~IsStart(b) /\ ~IsStop(b) /\ ~IsExit(b)
       /\ \E o \in InsertOutcomes(store, b) :
            /\ out' = Reply(c, "loop", b, o[1])
            /\ store' = o[2]
  /\ UNCHANGED <<pc, mode, has_lock, wrt, mutex, reader_count>>
  /\ UNCHANGED listener

\* a failed insert that also ends the writer session
W_Message_ReleaseOnFail(c) ==
  /\ pc[c] = "w_recv"
  /\ has_lock[c] = 0 \/ Len(store) < MaxStore
  /\ \E b \in LoopInputs :
       /\ Len(b) > 0 /\ ~IsStart(b) /\ ~IsStop(b) /\ ~IsExit(b)
       /\ IF has_lock[c] = 0
            THEN /\ out' = Reply(c, "loop", b, ERR_NO_LOCK)
                 /\ UNCHANGED <<store, has_lock, wrt>>
            ELSE \E o \in InsertOutcomes(store, b) :
                   /\ out' = Reply(c, "loop", b, o[1])
                   /\ store' = o[2]
                   /\ IF o[1] = ERR_INSERT
                        THEN /\ has_lock' = [has_lock EXCEPT ![c] = 0]
                             /\ wrt' = wrt + 1
                        ELSE UNCHANGED <<has_lock, wrt>>
  /\ UNCHANGED <<pc, mode, mutex, reader_count>>
  /\ UNCHANGED listener

(* server.c:186-188 and 207-217: recv returns a message.  The holder of    *)
(* the lock sends no further message once the store holds MaxStore.        *)
W_Message(c) ==
  /\ pc[c] = "w_recv"
  /\ has_lock[c] = 0 \/ Len(store) < MaxStore
  /\ \E b \in LoopInputs :
       /\ Len(b) > 0 /\ ~IsStart(b) /\ ~IsStop(b) /\ ~IsExit(b)
       /\ IF has_lock[c] = 0
            THEN /\ out' = Reply(c, "loop", b, ERR_NO_LOCK)
                 /\ store' = store
            ELSE \E o \in InsertOutcomes(store, b) :
                   /\ out' = Reply(c, "loop", b, o[1])
                   /\ store' = o[2]
  /\ UNCHANGED <<pc, mode, has_lock, wrt, mutex, reader_count>>
  /\ UNCHANGED listener

(* ---------------------------- reader path ----------------------------- *)
\* the test of server.c:233 made before the increment
FirstReader_BeforeIncrement(rc) == rc = 0

\* every reader waiting for the gate, not only the first
FirstReader_Every(rc) == rc >= 1

(* server.c:233: the reader that moves the count to 1 takes the gate *)
FirstReader(rc) == rc = 1

\* every leaving reader releasing the gate, not only the last
LastReader_Any(rc) == rc >= 0

(* server.c:243: the reader that moves the count to 0 releases the gate *)
LastReader(rc) == rc = 0

\* an arriving reader standing back while a writer waits for the gate
R_Enter_WriterFirst(c) ==
  /\ pc[c] = "r_enter"
  /\ mutex > 0
  /\ \A w \in Conns : pc[w] \notin {"w_init_start", "w_start"}
  /\ reader_count' = reader_count + 1
  /\ IF FirstReader(reader_count')
       THEN /\ mutex' = mutex - 1
            /\ pc' = [pc EXCEPT ![c] = "r_wrt"]
       ELSE /\ mutex' = mutex
            /\ pc' = [pc EXCEPT ![c] = "r_fetch"]
  /\ out' = Quiet
  /\ UNCHANGED <<mode, has_lock, wrt, store>>
  /\ UNCHANGED listener

(* server.c:231-234: sem_wait(&mutex); reader_count++; the first reader    *)
(* goes on to wait for wrt with mutex held, the others post mutex          *)
R_Enter(c) ==
  /\ pc[c] = "r_enter"
  /\ mutex > 0
  /\ reader_count' = reader_count + 1
  /\ IF FirstReader(reader_count')
       THEN /\ mutex' = mutex - 1
            /\ pc' = [pc EXCEPT ![c] = "r_wrt"]
       ELSE /\ mutex' = mutex
            /\ pc' = [pc EXCEPT ![c] = "r_fetch"]
  /\ out' = Quiet
  /\ UNCHANGED <<mode, has_lock, wrt, store>>
  /\ UNCHANGED listener

\* the first reader going on without sem_wait(&wrt)
R_Wrt_NoWait(c) ==
  /\ pc[c] = "r_wrt"
  /\ mutex' = mutex + 1
  /\ pc' = [pc EXCEPT ![c] = "r_fetch"]
  /\ out' = Quiet
  /\ UNCHANGED <<mode, has_lock, wrt, reader_count, store>>
  /\ UNCHANGED listener

(* server.c:233-234: sem_wait(&wrt) of the first reader; sem_post(&mutex) *)
R_Wrt(c) ==
  /\ pc[c] = "r_wrt"
  /\ wrt > 0
  /\ wrt' = wrt - 1
  /\ mutex' = mutex + 1
  /\ pc' = [pc EXCEPT ![c] = "r_fetch"]
  /\ out' = Quiet
  /\ UNCHANGED <<mode, has_lock, reader_count, store>>
  /\ UNCHANGED listener

(* server.c:236-239: fetch the messages and send them *)
R_Fetch(c) ==
  /\ pc[c] = "r_fetch"
  /\ pc' = [pc EXCEPT ![c] = "r_exit"]
  /\ out' = Quiet
  /\ UNCHANGED <<mode, has_lock, shared>>
  /\ UNCHANGED listener

\* a reader leaving without the decrement of server.c:242
R_Exit_NoDecrement(c) ==
  /\ pc[c] = "r_exit"
  /\ mutex > 0
  /\ reader_count' = reader_count
  /\ wrt' = IF LastReader(reader_count') THEN wrt + 1 ELSE wrt
  /\ pc' = [pc EXCEPT ![c] = "done"]
  /\ out' = Quiet
  /\ UNCHANGED <<mode, has_lock, mutex, store>>
  /\ UNCHANGED listener

(* server.c:241-248: sem_wait(&mutex); reader_count--; the last reader     *)
(* posts wrt; sem_post(&mutex); close; the thread returns                  *)
R_Exit(c) ==
  /\ pc[c] = "r_exit"
  /\ mutex > 0
  /\ reader_count' = reader_count - 1
  /\ wrt' = IF LastReader(reader_count') THEN wrt + 1 ELSE wrt
  /\ pc' = [pc EXCEPT ![c] = "done"]
  /\ out' = Quiet
  /\ UNCHANGED <<mode, has_lock, mutex, store>>
  /\ UNCHANGED listener

(* ---------------------------- specification --------------------------- *)
Next ==
  \E c \in Conns :
    \/ RecvInitial(c)
    \/ RecvInitialFail(c)
    \/ W_InitRecvStart(c)
    \/ W_InitStart(c)
    \/ W_InitStop(c)
    \/ W_InitMessage(c)
    \/ W_RecvEmpty(c)
    \/ W_RecvEnd(c)
    \/ W_RecvStart(c)
    \/ W_Start(c)
    \/ W_Stop(c)
    \/ W_Exit(c)
    \/ W_Message(c)
    \/ R_Enter(c)
    \/ R_Wrt(c)
    \/ R_Fetch(c)
    \/ R_Exit(c)

Spec == Init /\ [][Next]_vars

\* The steps of handler c that need nothing from its client: the thread is
\* runnable and the scheduler runs it.  recv waits for the client, which may
\* stay silent, so the steps that begin with a recv are under no fairness;
\* neither semaphore is fair, so a waiter is only weakly fair.
HandlerStep(c) ==
  \/ W_InitStart(c) \/ W_Start(c)
  \/ R_Enter(c) \/ R_Wrt(c) \/ R_Fetch(c) \/ R_Exit(c)

FairSpec == Spec /\ \A c \in Conns : WF_vars(HandlerStep(c))

(* ---------------------------- listener -------------------------------- *)
(* main, server.c:258-314, and handle_sigint, server.c:37-38.  A slot of   *)
(* Conns holds no connection ("none"), a running handler, or a handler     *)
(* that has returned ("done"); accept reuses the slots without a running   *)
(* handler.                                                                *)

\* server.c:272-273 and 289: the semaphores are initialised and main enters
\* its loop; nothing is connected
ServerInit ==
  /\ pc = [c \in Conns |-> "none"]
  /\ mode = [c \in Conns |-> ""]
  /\ has_lock = [c \in Conns |-> 0]
  /\ out = Quiet
  /\ wrt = 1
  /\ mutex = 1
  /\ reader_count = 0
  /\ store = <<>>
  /\ running = 1
  /\ lpc = "loop"

(* server.c:291: while (running); main then calls accept (293) or goes to   *)
(* the shutdown code (308)                                                  *)
L_Test ==
  /\ lpc = "loop"
  /\ lpc' = IF running # 0 THEN "accept" ELSE "shutdown"
  /\ out' = Quiet
  /\ UNCHANGED <<pc, mode, has_lock, shared, running>>

(* server.c:293-305: a client connects, accept returns its socket and a    *)
(* handler thread is created for it; running is not read on this path      *)
L_Accept(c) ==
  /\ lpc = "accept"
  /\ pc[c] \in {"none", "done"}
  /\ pc' = [pc EXCEPT ![c] = "recv_init"]
  /\ mode' = [mode EXCEPT ![c] = ""]
  /\ lpc' = "loop"
  /\ out' = Quiet
  /\ UNCHANGED <<has_lock, shared, running>>

(* server.c:293-304: a client connects, but malloc or pthread_create       *)
(* fails: the socket is closed and the loop continues                      *)
L_AcceptNoHandler ==
  /\ lpc = "accept"
  /\ lpc' = "loop"
  /\ out' = Quiet
  /\ UNCHANGED <<pc, mode, has_lock, shared, running>>

(* server.c:293-297: accept returns -1; main leaves the loop if errno is   *)
(* EINTR and running is 0, and continues otherwise                         *)
L_AcceptError ==
  /\ lpc = "accept"
  /\ \E errno \in {"EINTR", "other"} :
       lpc' = IF errno = "EINTR" /\ running = 0 THEN "shutdown" ELSE "loop"
  /\ out' = Quiet
  /\ UNCHANGED <<pc, mode, has_lock, shared, running>>

(* server.c:38 and 259: SIGINT runs handle_sigint, which clears running.   *)
(* The handler is installed with signal(): whether a blocked accept is     *)
(* restarted or returns -1 with EINTR depends on the C library, and a      *)
(* signal that arrives before accept is entered interrupts nothing; in the *)
(* EINTR case main finds running = 0 and leaves the loop (295).            *)
Sigint ==
  /\ running = 1
  /\ lpc # "exited"
  /\ running' = 0
  /\ \/ lpc' = lpc
     \/ lpc = "accept" /\ lpc' = "shutdown"
  /\ out' = Quiet
  /\ UNCHANGED <<pc, mode, has_lock, shared>>

(* server.c:308-313: main closes the listening socket, destroys the        *)
(* semaphores and returns, which ends the process and every handler thread *)
L_Exit ==
  /\ lpc = "shutdown"
  /\ lpc' = "exited"
  /\ pc' = [c \in Conns |-> IF pc[c] \in {"none", "done"} THEN pc[c] ELSE "killed"]
  /\ has_lock' = [c \in Conns |-> 0]
  /\ out' = Quiet
  /\ UNCHANGED <<mode, shared, running>>

ServerNext ==
  \/ Next
  \/ L_Test
  \/ \E c \in Conns : L_Accept(c)
  \/ L_AcceptNoHandler
  \/ L_AcceptError
  \/ Sigint
  \/ L_Exit

ServerSpec == ServerInit /\ [][ServerNext]_vars

\* main is a thread like the handlers: its steps that wait for nothing (the
\* loop test, the shutdown code) are taken; accept waits for a client
ServerFairSpec ==
  /\ ServerSpec
  /\ \A c \in Conns : WF_vars(HandlerStep(c))
  /\ WF_vars(L_Test \/ L_Exit)

(* ---------------------------- vocabulary ------------------------------ *)
TypeOK ==
  /\ wrt \in 0..1
  /\ mutex \in 0..1
  /\ reader_count \in 0..NumConns

\* the writer sessions that hold the write lock
Holders == { c \in Conns : has_lock[c] = 1 }

\* a reader that has finished the entry (server.c:231-234) and has not
\* finished the release (server.c:241-244)
ReaderInside(c) == pc[c] \in {"r_fetch", "r_exit"}

\* a handler that is in sem_wait(&wrt) of a "start" (server.c:166, 192)
InStart(c) == pc[c] \in {"w_init_start", "w_start"}

\* handler c moves
Steps(c) == <<pc[c], has_lock[c]>>' # <<pc[c], has_lock[c]>>

\* handler c receives a command in its loop and processes it to the reply
LoopCommand(c) == pc[c] = "w_recv" /\ out'[1] = c /\ out'[2] = "loop"

\* handler c receives a first frame with a payload and processes it to the
\* reply
InitCommand(c) == pc[c] = "recv_init" /\ out'[1] = c /\ out'[2] = "first"

(* ---------------------------- C1 -------------------------------------- *)
\* C1 as stated: reader_count is never nonzero while a writer session has
\* has_lock = 1, and at most one writer holds the gate.
C1_CountExcludesWriter ==
  /\ ~(reader_count > 0 /\ Holders # {})
  /\ Cardinality(Holders) <= 1

\* C1 amended: at most one writer holds the gate, and reader_count is
\* nonzero while a writer holds it only as 1, with the counted reader still
\* in sem_wait(&wrt) of the entry (holding mutex) and no reader past the
\* entry.
C1_CountOnlyOfBlockedFirstReader ==
  /\ Cardinality(Holders) <= 1
  /\ (reader_count > 0 /\ Holders # {}) =>
        /\ reader_count = 1
        /\ mutex = 0
        /\ \E r \in Conns : pc[r] = "r_wrt"
        /\ \A r \in Conns : ~ReaderInside(r)
  /\ (\E r \in Conns : ReaderInside(r)) => (reader_count > 0 /\ Holders = {})

C1_Witness ==
  /\ reader_count = 1
  /\ \E w, r \in Conns : has_lock[w] = 1 /\ pc[r] = "r_wrt" /\ store # <<>>

(* ---------------------------- C2 -------------------------------------- *)
\* C2: no reader is inside its read section while a writer session holds
\* the write lock.
C2_ReaderExcludesWriter ==
  \A r, w \in Conns : ~(ReaderInside(r) /\ has_lock[w] = 1)

C2_Witness ==
  \E r, w \in Conns : pc[r] = "r_fetch" /\ store # <<>> /\ InStart(w) /\ has_lock[w] = 0

(* ---------------------------- C3 -------------------------------------- *)
\* C3: at most one writer session has has_lock = 1.
C3_OneWriter == \A a, b \in Conns : (has_lock[a] = 1 /\ has_lock[b] = 1) => a = b

C3_Witness ==
  \E a, b, d \in Conns :
    /\ has_lock[a] = 1 /\ store # <<>>
    /\ pc[b] = "w_init_start"
    /\ pc[d] = "w_start" /\ d # a

(* ---------------------------- C4 -------------------------------------- *)
\* the recv of writer a returns end-of-stream or an error while its session
\* holds the write lock, and its handler goes through the teardown
HolderDisconnects(a) ==
  /\ pc[a] = "w_recv" /\ has_lock[a] = 1
  /\ pc'[a] = "done" /\ out'[1] = a /\ out'[3] = <<>>

\* the handler of writer a has just finished that teardown
AutoReleased(a) == pc[a] = "done" /\ out = Reply(a, "end", <<>>, AUTO_RELEASED)

\* C4 as stated: once a writer has disconnected while holding the write
\* lock, a writer that is blocked in "start" eventually holds the gate
\* (stated for connections 1 and 2; the connections are interchangeable).
C4_BlockedWriterAcquires ==
  (AutoReleased(1) /\ InStart(2)) ~> (has_lock[2] = 1)

\* C4 amended: the teardown of a writer that disconnected while holding the
\* write lock frees the gate and leaves every writer blocked in "start"
\* able to take it, and under fair scheduling a blocked writer then holds
\* the gate unless another handler takes the freed gate first.
C4_AutoRelease ==
  /\ [][ \A a \in Conns :
           HolderDisconnects(a) =>
              /\ wrt = 0 /\ wrt' = 1
              /\ out'[4] = AUTO_RELEASED
              /\ \A b \in Conns : has_lock'[b] = 0
              /\ \A b \in Conns : InStart(b) => (InStart(b))'
       ]_vars
  /\ [](\A a \in Conns : AutoReleased(a) => wrt = 1)
  /\ (AutoReleased(1) /\ InStart(2)) ~> (has_lock[2] = 1 \/ wrt = 0)

C4_Witness ==
  /\ pc[1] = "done" /\ mode[1] = "writer" /\ store # <<>>
  /\ has_lock[2] = 1 /\ out[1] = 2 /\ out[4] = OK_STARTED
  /\ \A d \in Conns \ {1, 2} : pc[d] = "recv_init"

(* ---------------------------- C5 -------------------------------------- *)
\* C5: a message received while the session does not hold the write lock is
\* answered with an ERROR reply and leaves the store unchanged, and every
\* change of the store is an append by a session whose has_lock is 1.
C5_AppendNeedsSession ==
  [][ /\ \A c \in Conns :
           ( /\ LoopCommand(c) \/ InitCommand(c)
             /\ IsMessage(out'[3])
             /\ has_lock[c] = 0 )
           => (out'[4] \in ErrorReplies /\ store' = store)
      /\ store' # store =>
           \E c \in Conns :
             /\ has_lock[c] = 1 /\ has_lock'[c] = 1
             /\ LoopCommand(c) /\ pc'[c] = "w_recv" /\ IsMessage(out'[3])
             /\ out'[4] = OK_STORED
             /\ store' = Append(store, out'[3])
    ]_vars

C5_Witness ==
  \E c, d \in Conns :
    /\ out = Reply(c, "loop", hiS, ERR_NO_LOCK) /\ has_lock[c] = 0
    /\ has_lock[d] = 1
    /\ store = <<hiS>>

(* ---------------------------- C6 -------------------------------------- *)
\* C6: a "start" received by a session that already holds the write lock
\* does not wait for the gate again: the session is not blocked and goes on
\* to reply.
C6_StartWhileHeldProceeds ==
  \A c \in Conns :
    (pc[c] = "w_start" /\ has_lock[c] = 1) => ENABLED W_Start(c)

(* ---------------------------- C7 -------------------------------------- *)
\* C7: a "stop" in the command loop of a session that holds the lock posts
\* the gate once, clears has_lock and replies "OK: writer session stopped";
\* of a session that does not hold it, it replies "ERROR: no active writer
\* session" and changes neither has_lock, the gate nor the reader count.
C7_Stop ==
  [][ \A c \in Conns :
        (LoopCommand(c) /\ IsStop(out'[3])) =>
          IF has_lock[c] = 1
            THEN /\ wrt' = wrt + 1
                 /\ has_lock' = [has_lock EXCEPT ![c] = 0]
                 /\ out'[4] = OK_STOPPED
                 /\ reader_count' = reader_count /\ mutex' = mutex
            ELSE /\ out'[4] = ERR_NO_SESS
                 /\ has_lock' = has_lock
                 /\ wrt' = wrt
                 /\ reader_count' = reader_count /\ mutex' = mutex
    ]_vars

C7_Witness ==
  \E c, d \in Conns :
    /\ out = Reply(c, "loop", stopS, OK_STOPPED)
    /\ has_lock[c] = 0 /\ wrt = 1 /\ store # <<>>
    /\ pc[d] = "w_recv" /\ d # c

(* ---------------------------- C8 -------------------------------------- *)
\* writer a has processed "stop" and the gate is free
Stopped(a) ==
  /\ pc[a] = "w_recv" /\ out = Reply(a, "loop", stopS, OK_STOPPED)
  /\ has_lock[a] = 0 /\ wrt = 1

\* C8: while writer a holds the write lock, a writer b that is in "start"
\* stays blocked (wrt is 0) and is sent no reply; a's "stop" frees the gate
\* and leaves b in its start; the step that completes b's start makes b the
\* holder and sends it the OK reply; and under fair scheduling, once a has
\* stopped, b becomes the holder with the OK reply unless another handler
\* takes the freed gate first (the last part stated for connections 1 and
\* 2).
C8_BlockedStartCompletes ==
  /\ [](\A a, b \in Conns :
          (has_lock[a] = 1 /\ InStart(b) /\ a # b) =>
             /\ has_lock[b] = 0
             /\ wrt = 0)
  /\ [][ \A a, b \in Conns :
           /\ (LoopCommand(a) /\ IsStop(out'[3]) /\ has_lock[a] = 1 /\ InStart(b)) =>
                 (wrt' = 1 /\ (InStart(b))')
           /\ (InStart(b) /\ (Steps(b) \/ out'[1] = b)) =>
                 /\ has_lock'[b] = 1 /\ wrt = 1 /\ wrt' = 0
                 /\ out'[1] = b /\ out'[3] = startS /\ out'[4] = OK_STARTED
       ]_vars
  /\ (Stopped(1) /\ InStart(2)) ~>
        ((has_lock[2] = 1 /\ out[1] = 2 /\ out[4] = OK_STARTED) \/ wrt = 0)

C8_Witness ==
  \E a, b \in Conns :
    /\ has_lock[a] = 0 /\ pc[a] = "w_recv" /\ store # <<>>
    /\ out = Reply(b, "loop", startS, OK_STARTED) /\ has_lock[b] = 1

(* ---------------------------- C9 -------------------------------------- *)
\* reader r waits in a sem_wait
ReaderWaits(r) ==
  \/ pc[r] = "r_wrt" /\ wrt = 0
  \/ pc[r] \in {"r_enter", "r_exit"} /\ mutex = 0

\* C9: a reader waits for the gate only while a writer session holds it,
\* and for mutex only while the first reader of a group is in its entry;
\* with no writer holding the gate, that first reader can go on, so no
\* reader is kept out by the readers that are inside, however many.  Under
\* fair scheduling a reader that arrives while no writer holds the gate
\* gets inside unless a writer takes the gate first (stated for connection
\* 1).
C9_ReadersDoNotBlockReaders ==
  /\ [](\A r \in Conns :
          /\ (pc[r] = "r_wrt" /\ wrt = 0) => Holders # {}
          /\ (pc[r] \in {"r_enter", "r_exit"} /\ mutex = 0) =>
                \E f \in Conns : f # r /\ pc[f] = "r_wrt" /\ reader_count = 1
          /\ (ReaderWaits(r) /\ Holders = {}) =>
                \E f \in Conns : f # r /\ pc[f] = "r_wrt" /\ wrt > 0)
  /\ (pc[1] = "r_enter" /\ Holders = {}) ~> (ReaderInside(1) \/ Holders # {})

C9_Witness ==
  \E r, q, f \in Conns :
    /\ r # q /\ q # f /\ r # f
    /\ pc[r] = "r_fetch" /\ pc[q] = "r_fetch" /\ pc[f] = "r_exit"
    /\ reader_count = 3 /\ Holders = {}

(* ---------------------------- C10 ------------------------------------- *)
\* what the command loop of server.c:191-217 replies to command b in a
\* session that does not hold the lock (to "start": once the gate is taken)
LoopReplyWithoutLock(b) ==
  IF IsStart(b) THEN OK_STARTED
  ELSE IF IsStop(b) THEN ERR_NO_SESS
  ELSE ERR_NO_LOCK

\* C10: a start, stop or message payload in the first frame of a writer has
\* the effect on the gate, has_lock and the store, and the OK/ERROR outcome,
\* that the same command has in the loop with has_lock = 0.
C10_PayloadAsLoopCommand ==
  [][ \A c \in Conns :
        \* the loop, without the lock
        /\ (LoopCommand(c) /\ has_lock[c] = 0 /\ (IsStop(out'[3]) \/ IsMessage(out'[3])))
              => /\ out'[4] = LoopReplyWithoutLock(out'[3])
                 /\ store' = store /\ wrt' = wrt /\ has_lock'[c] = 0
        /\ (pc[c] = "w_start" /\ has_lock[c] = 0 /\ Steps(c))
              => /\ out' = Reply(c, "loop", startS, LoopReplyWithoutLock(startS))
                 /\ store' = store /\ wrt' = wrt - 1 /\ has_lock'[c] = 1
        \* the payload of the first frame
        /\ (InitCommand(c) /\ (IsStop(out'[3]) \/ IsMessage(out'[3])))
              => /\ (out'[4] \in OKReplies) <=> (LoopReplyWithoutLock(out'[3]) \in OKReplies)
                 /\ store' = store /\ wrt' = wrt /\ has_lock'[c] = 0
        /\ (pc[c] = "w_init_start" /\ Steps(c))
              => /\ out'[1] = c /\ out'[3] = startS
                 /\ (out'[4] \in OKReplies) <=> (LoopReplyWithoutLock(startS) \in OKReplies)
                 /\ store' = store /\ wrt' = wrt - 1 /\ has_lock'[c] = 1
    ]_vars

(* ---------------------------- C11 ------------------------------------- *)
\* C11: the first frames that contain neither "reader" nor "writer" are the
\* ones the role negotiation leaves without a role, and a handler whose
\* first recv gives no role (or fails) ends there: it sends nothing on the
\* socket and changes neither the reader count, the semaphores, the store
\* nor any session's has_lock.
C11_UnknownRoleClosedSilently ==
  /\ \A f \in InitFrames :
        (~StrStr(f, writerS) /\ ~StrStr(f, readerS)) <=> (Mode(rtrim(f)) = "")
  /\ [][ \A c \in Conns :
           (pc[c] = "recv_init" /\ pc'[c] # "recv_init"
              /\ mode'[c] \notin {"writer", "reader"}) =>
                /\ pc'[c] = "done"
                /\ out'[4] \in LogLines \cup {NoReply}
                /\ shared' = shared /\ has_lock' = has_lock
       ]_vars

C11_Witness ==
  \E c, w \in Conns :
    /\ pc[c] = "done" /\ out = Reply(c, "first", <<>>, UNKNOWN_ROLE)
    /\ has_lock[w] = 1 /\ store # <<>> /\ reader_count = 1

(* ---------------------------- C12 ------------------------------------- *)
\* C12: a message of the session that holds the write lock which the store
\* does not take is answered with an ERROR reply and changes nothing else:
\* has_lock stays 1, the gate stays taken, the reader count, mutex and the
\* handler's position are as before; and after that reply the session can
\* send a further message or a "stop".
C12_FailedAppendKeepsLock ==
  /\ [][ \A c \in Conns :
           (LoopCommand(c) /\ IsMessage(out'[3]) /\ has_lock[c] = 1 /\ store' = store) =>
              /\ out'[4] = ERR_INSERT /\ out'[4] \in ErrorReplies
              /\ has_lock' = has_lock /\ pc' = pc
              /\ wrt = 0 /\ wrt' = 0
              /\ reader_count' = reader_count /\ mutex' = mutex
       ]_vars
  /\ [](\A c \in Conns :
          (out[1] = c /\ out[4] = ERR_INSERT) =>
             /\ has_lock[c] = 1 /\ wrt = 0 /\ pc[c] = "w_recv"
             /\ ENABLED W_Message(c)
             /\ ENABLED W_Stop(c))

C12_Witness ==
  \E c, r \in Conns :
    /\ out = Reply(c, "loop", hiS, ERR_INSERT)
    /\ has_lock[c] = 1 /\ wrt = 0 /\ store = <<>>
    /\ pc[r] = "r_wrt"

(* ---------------------------- C13 ------------------------------------- *)
\* the replies to a command that needs a session the connection does not
\* have, server.c:203 and 209
SessionErrors == {ERR_NO_LOCK, ERR_NO_SESS}

\* C13: a message or a "stop" in the loop of a session that does not hold
\* the lock is answered with the session error and changes nothing: the
\* handler stays in its loop, has_lock, the semaphores, the counter and
\* the store are as before; after the error the connection can send
\* "start", and a start of a session without the lock goes on as soon as
\* the gate is free, takes it, sets has_lock and is answered with OK.
C13_UsableAfterSessionError ==
  /\ [][ \A c \in Conns :
           /\ (LoopCommand(c) /\ has_lock[c] = 0 /\ (IsStop(out'[3]) \/ IsMessage(out'[3]))) =>
                 /\ out'[4] \in SessionErrors
                 /\ pc'[c] = "w_recv"
                 /\ has_lock' = has_lock /\ shared' = shared
           /\ (pc[c] = "w_start" /\ has_lock[c] = 0 /\ Steps(c)) =>
                 /\ wrt = 1 /\ wrt' = 0 /\ has_lock'[c] = 1
                 /\ pc'[c] = "w_recv"
                 /\ out' = Reply(c, "loop", startS, OK_STARTED)
       ]_vars
  /\ [](\A c \in Conns :
          /\ (out[1] = c /\ out[4] \in SessionErrors) =>
                (pc[c] = "w_recv" /\ has_lock[c] = 0 /\ ENABLED W_RecvStart(c))
          /\ (pc[c] = "w_start" /\ has_lock[c] = 0 /\ wrt = 1) => ENABLED W_Start(c))

C13_Witness ==
  \E c, d \in Conns :
    /\ out = Reply(c, "loop", stopS, ERR_NO_SESS)
    /\ pc[c] = "w_recv" /\ has_lock[c] = 0
    /\ has_lock[d] = 1 /\ store # <<>>

(* ---------------------------- C14 ------------------------------------- *)
\* the handler of writer c leaves its command loop and returns
WriterFinishes(c) == pc[c] = "w_recv" /\ pc'[c] = "done"

\* C14: every exit of a writer from its command loop, by "exit" or by a
\* recv that returns no frame, posts the gate exactly once when the session
\* holds the lock and leaves the gate alone when it does not; it touches
\* no other session, counter or store; and whenever the gate is taken it is
\* taken for a handler that has not finished: a session with has_lock = 1
\* in its loop, or readers between entry and release.
C14_NoFinishWithGateTaken ==
  /\ [][ \A c \in Conns :
           WriterFinishes(c) =>
              /\ out'[1] = c /\ out'[2] = "end" /\ out'[3] \in {<<>>, exitS}
              /\ IF has_lock[c] = 1
                   THEN wrt = 0 /\ wrt' = 1 /\ out'[4] = AUTO_RELEASED
                   ELSE wrt' = wrt /\ out'[4] = DISCONNECTED
              /\ has_lock' = [has_lock EXCEPT ![c] = 0]
              /\ reader_count' = reader_count /\ mutex' = mutex /\ store' = store
       ]_vars
  /\ [](\A c \in Conns : pc[c] = "done" => has_lock[c] = 0)
  /\ [](wrt = 0 =>
          \/ \E c \in Conns : has_lock[c] = 1 /\ pc[c] \in {"w_recv", "w_start"}
          \/ \E r \in Conns : ReaderInside(r))

C14_Witness ==
  \E c, d \in Conns :
    /\ out = Reply(c, "end", exitS, AUTO_RELEASED)
    /\ pc[c] = "done" /\ wrt = 1 /\ store # <<>>
    /\ pc[d] = "done" /\ mode[d] = "writer" /\ d # c

(* ---------------------------- C15 ------------------------------------- *)
\* C15: the value of the gate semaphore is always 0 or 1; every step that
\* raises it raises it from 0 to 1 and is either a writer session with
\* has_lock = 1 giving the lock up in its loop (stop, exit, disconnect) or
\* the reader that moves the count from 1 to 0; a "stop" in the first
\* frame, which holds nothing, leaves the gate alone.
C15_ReleasedByHolderOnly ==
  /\ [](wrt \in {0, 1})
  /\ [][ /\ wrt' > wrt =>
              /\ wrt = 0 /\ wrt' = 1
              /\ \/ \E c \in Conns :
                      /\ pc[c] = "w_recv" /\ has_lock[c] = 1 /\ has_lock'[c] = 0
                      /\ \A r \in Conns : ~ReaderInside(r)
                 \/ \E r \in Conns :
                      /\ pc[r] = "r_exit" /\ pc'[r] = "done"
                      /\ reader_count = 1 /\ reader_count' = 0
                      /\ Holders = {}
         /\ \A c \in Conns : (InitCommand(c) /\ IsStop(out'[3])) => wrt' = wrt
       ]_vars

C15_Witness ==
  \E w, r, h \in Conns :
    /\ out = Reply(w, "first", stopS, OK_STOPPED) /\ wrt = 1
    /\ pc[r] = "done" /\ mode[r] = "reader"
    /\ pc[h] = "done" /\ mode[h] = "writer" /\ store # <<>>

(* ---------------------------- C16 ------------------------------------- *)
\* a reader that has incremented reader_count and not yet decremented it
Counted(r) == pc[r] \in {"r_wrt", "r_fetch", "r_exit"}

\* C16: reader_count is the number of readers between their increment and
\* their decrement, so it is never negative and is 0 when no reader is
\* there; while any reader is between its entry and its release the gate
\* is taken and no writer holds it; the reader that moves the count 0->1
\* takes the gate before it (or any reader) fetches; a reader leaves only
\* after its own fetch, and the gate is released by the leaving reader
\* exactly when it moves the count 1->0; under fair scheduling a reader
\* that is inside finishes (stated for connection 1).
C16_GateHeldForReaders ==
  /\ [](/\ reader_count = Cardinality({ r \in Conns : Counted(r) })
        /\ reader_count >= 0
        /\ (\A r \in Conns : ~Counted(r)) => reader_count = 0
        /\ (\E r \in Conns : ReaderInside(r)) =>
              (wrt = 0 /\ Holders = {} /\ reader_count >= 1))
  /\ [][ \A r \in Conns :
           /\ (pc[r] = "r_enter" /\ Steps(r)) =>
                 /\ reader_count' = reader_count + 1 /\ wrt' = wrt
                 /\ pc'[r] = IF reader_count = 0 THEN "r_wrt" ELSE "r_fetch"
           /\ (pc[r] = "r_wrt" /\ Steps(r)) =>
                 /\ wrt = 1 /\ wrt' = 0 /\ pc'[r] = "r_fetch"
                 /\ reader_count = 1 /\ reader_count' = 1
                 /\ \A q \in Conns : ~ReaderInside(q)
           /\ (pc[r] = "r_fetch" /\ Steps(r)) =>
                 /\ pc'[r] = "r_exit" /\ wrt = 0 /\ wrt' = 0
                 /\ reader_count' = reader_count
           /\ (pc[r] = "r_exit" /\ Steps(r)) =>
                 /\ pc'[r] = "done" /\ reader_count' = reader_count - 1
                 /\ wrt = 0 /\ wrt' = IF reader_count = 1 THEN 1 ELSE 0
       ]_vars
  /\ ReaderInside(1) ~> (pc[1] = "done")

C16_Witness ==
  \E r, q, f \in Conns :
    /\ pc[r] = "r_exit" /\ pc[q] = "r_fetch"
    /\ pc[f] = "done" /\ mode[f] = "reader"
    /\ reader_count = 2 /\ wrt = 0

(* ---------------------------- C17 ------------------------------------- *)
\* C17: once every handler has returned, whatever its connection did (a
\* failed first recv, an unknown role, session errors, failed inserts,
\* exit or disconnect with or without the lock, a reader's pass), the lock
\* is as main initialised it: reader_count 0, wrt 1, mutex 1.
C17_LockRestored ==
  (\A c \in Conns : pc[c] = "done") =>
     (reader_count = 0 /\ wrt = 1 /\ mutex = 1 /\ Holders = {})

C17_Witness ==
  /\ \A c \in Conns : pc[c] = "done"
  /\ \E w, r, u \in Conns :
       mode[w] = "writer" /\ mode[r] = "reader" /\ mode[u] = ""
  /\ store # <<>>

(* ---------------------------- C18 ------------------------------------- *)
(* Two schedules of the server.  Connection 1 is the client that is kept   *)
(* waiting; its role decides the traffic of the other connections: readers *)
(* that overlap when connection 1 is a writer, writers that hand the gate  *)
(* to each other when it is a reader.  No signal arrives and accept does   *)
(* not fail.                                                               *)
Others == Conns \ {1}

\* connection 1 connects once; the others connect, again and again, once
\* connection 1 has its role
S_Accept(c) ==
  /\ IF c = 1 THEN pc[1] = "none" ELSE mode[1] \in {"writer", "reader"}
  /\ L_Accept(c)

\* connection 1: a writer that sends "start" and "stop", or a reader; the
\* reader loses the race for a free gate against a writer that is in
\* its start
S_Victim ==
  \/ RecvInitial(1) /\ mode'[1] \in {"writer", "reader"}
  \/ W_InitRecvStart(1)
  \/ W_InitStart(1)
  \/ W_RecvStart(1) /\ has_lock[1] = 0
  \/ W_Start(1)
  \/ W_Stop(1) /\ has_lock[1] = 1
  \/ R_Enter(1)
  \/ R_Wrt(1) /\ ~(\E w \in Others : InStart(w))
  \/ R_Fetch(1)
  \/ R_Exit(1)

\* reader traffic: the last reader inside does not leave while the writer
\* of connection 1 waits for the gate
S_Reader(c) ==
  /\ mode[1] = "writer"
  /\ \/ RecvInitial(c) /\ mode'[c] = "reader"
     \/ R_Enter(c)
     \/ R_Wrt(c)
     \/ R_Fetch(c)
     \/ R_Exit(c) /\ ~(reader_count = 1 /\ InStart(1) /\ has_lock[1] = 0)

\* writer traffic: a writer that does not hold the lock sends "start", the
\* holder sends "stop" once another writer is in its start
S_Writer(c) ==
  /\ mode[1] = "reader"
  /\ \/ RecvInitial(c) /\ mode'[c] = "writer"
     \/ W_InitRecvStart(c)
     \/ W_InitStart(c)
     \/ W_RecvStart(c) /\ has_lock[c] = 0
     \/ W_Start(c)
     \/ W_Stop(c) /\ has_lock[c] = 1 /\ (\E d \in Others : InStart(d))

StarveNext ==
  \/ L_Test
  \/ \E c \in Conns : S_Accept(c)
  \/ S_Victim
  \/ \E c \in Others : S_Reader(c)
  \/ \E c \in Others : S_Writer(c)

\* the traffic keeps coming and every thread keeps running
StarveSpec ==
  /\ ServerInit /\ [][StarveNext]_vars
  /\ WF_vars(L_Test)
  /\ SF_vars(S_Victim)
  /\ SF_vars(\E c \in Conns : S_Accept(c))
  /\ \A c \in Others : SF_vars(S_Reader(c) \/ S_Writer(c))

\* the writer of connection 1 waits in its start while readers are inside
WriterStarved ==
  /\ InStart(1) /\ has_lock[1] = 0
  /\ wrt = 0 /\ reader_count > 0
  /\ \E r \in Others : ReaderInside(r)

\* the reader of connection 1 waits for the gate while writers hold it or
\* are about to take it
ReaderStarved ==
  /\ pc[1] = "r_wrt"
  /\ \/ wrt = 0 /\ \E w \in Others : has_lock[w] = 1
     \/ wrt = 1 /\ \E w \in Others : InStart(w)

\* C18: every behaviour of the two schedules is a behaviour of the server
\* under fair scheduling of its threads; in the first, once the writer of
\* connection 1 waits with readers inside, it waits forever, with the
\* reader count above 0, while readers keep finishing; in the second, once
\* the reader of connection 1 waits behind a writer, it waits forever while
\* the lock keeps passing from writer to writer.
C18_NoFairness ==
  /\ [][ServerNext]_vars
  /\ \A c \in Conns : WF_vars(HandlerStep(c))
  /\ WF_vars(L_Test \/ L_Exit)
  /\ [][WriterStarved => WriterStarved']_vars
  /\ [][ReaderStarved => ReaderStarved']_vars
  /\ (WriterStarved /\ pc[2] = "r_fetch") ~> (WriterStarved /\ pc[2] = "done")
  /\ (ReaderStarved /\ has_lock[2] = 1) ~>
        (ReaderStarved /\ \E w \in Others \ {2} : has_lock[w] = 1)

C18_Witness ==
  /\ WriterStarved
  /\ \E r \in Others : pc[r] = "done" /\ mode[r] = "reader"

(* ---------------------------- C19 ------------------------------------- *)
\* C19: once running is 0, no handler is created for a connection, and
\* main reaches its shutdown code whether or not a further client
\* connects.
C19_AcceptLoopStops ==
  /\ [][ running = 0 =>
           \A c \in Conns : ~(pc[c] \in {"none", "done"} /\ pc'[c] = "recv_init") ]_vars
  /\ (running = 0) ~> (lpc \in {"shutdown", "exited"})

(* ---------------------------- C20 ------------------------------------- *)
\* handler c is in a sem_wait that cannot return in this state
BlockedOnSem(c) ==
  \/ pc[c] \in {"w_init_start", "w_start", "r_wrt"} /\ wrt = 0
  \/ pc[c] \in {"r_enter", "r_exit"} /\ mutex = 0

\* C20: no reachable state has the holder of the gate blocked on a
\* semaphore itself while every other handler is blocked on the gate or on
\* mutex.
C20_NoDeadlock ==
  ~ \E h \in Conns :
      /\ has_lock[h] = 1 /\ BlockedOnSem(h)
      /\ \A d \in Conns \ {h} : BlockedOnSem(d)

====
